---- MODULE Spec2Model ----
(***************************************************************************)
(* Model of webthing_client/stomp.py: class StompWebsocket, the STOMP over *)
(* websocket transport with its subscription backlog and its reconnect     *)
(* policy.  Handlers run on the websocket thread, one at a time; subscribe *)
(* is called from caller threads.  In specification Spec every handler and *)
(* every subscribe or send call is one atomic step.                        *)
(*                                                                         *)
(* Further specifications model the callers of the transport:              *)
(*   LegacySpec      webthing/client.py, the filter on self-created actions*)
(*   ResolutionSpec  webthing_client/client.py, create_simple_resolution   *)
(*   ApiSpec         standard_api/api_handler.py, ApiRequester.call        *)
(*   UriSpec         webthing_client/client.py, the websocket URI          *)
(*   OpenSpec        webthing_client/stomp.py, the WebSocketApps and       *)
(*                   threads that _init_websocket creates                  *)
(* Each one moves its own variables and leaves the others as they start.   *)
(*                                                                         *)
(* Specification InterleavedSpec takes subscribe, _connected_message and   *)
(* _on_close of stomp.py statement by statement: a caller thread in        *)
(* subscribe and the websocket thread in a handler take turns in any order,*)
(* as the code holds no lock.                                              *)
(***************************************************************************)
EXTENDS Naturals, Sequences, FiniteSets

\* ------------------------------------------------------------------ bounds

\* Total number of calls (subscribe, send) made by callers in one behaviour.
MaxCalls == 2

\* Total number of WebSocketApp instances created (_init_websocket calls).
MaxConnects == 3

\* LegacySpec: callbacks registered with subscribe_actions.
MaxActionCallbacks == 2

\* LegacySpec: actions created in one behaviour, by this client and by others.
MaxActions == 2

\* ResolutionSpec: length of the list of requests.
MaxRequests == 3

\* UriSpec: length of the name given as webthing_fqdn.
MaxFqdnLen == 3

\* OpenSpec: WebSocketApps created over the life of the object.
MaxApps == 4

\* ------------------------------------------------------------- value sets

Topics == {"A", "B"}

Callbacks == {"cb1", "cb2"}

None == "None"

\* The attribute has never been assigned (reading it raises AttributeError).
Unset == "Unset"

\* (status_code, message) pairs handed to _on_close by the websocket library.
CloseEvents == {<<"1000", "bye">>}

\* Errors handed to _on_error by the websocket library.
SocketErrors == {"WebSocketException"}

\* Characters (and runs of non-blank characters) a raw payload is made of.
SP == " "
LF == "\n"
TAB == "\t"
CR == "\r"
NUL == "NUL"

Blank == {SP, LF, TAB, CR}

\* ------------------------------------------------------ python dict model
\* A dict is the sequence of its items, in insertion order.

DictHas(d, k) == \E i \in 1..Len(d) : d[i].key = k

DictGet(d, k, default) ==
    IF DictHas(d, k) THEN d[CHOOSE i \in 1..Len(d) : d[i].key = k].val ELSE default

DictKeys(d) == {d[i].key : i \in 1..Len(d)}

\* d.setdefault(k, []).append(x)
DictSetDefaultAppend(d, k, x) ==
    IF DictHas(d, k)
    THEN [i \in 1..Len(d) |->
            IF d[i].key = k THEN [key |-> k, val |-> Append(d[i].val, x)] ELSE d[i]]
    ELSE Append(d, [key |-> k, val |-> <<x>>])

\* d[k] = v
DictSet(d, k, v) ==
    IF DictHas(d, k)
    THEN [i \in 1..Len(d) |-> IF d[i].key = k THEN [key |-> k, val |-> v] ELSE d[i]]
    ELSE Append(d, [key |-> k, val |-> v])

\* d.update(o): the items of o in order; an existing key keeps its place and
\* takes o's value.
RECURSIVE DictUpdate(_, _)
DictUpdate(d, o) ==
    IF o = <<>> THEN d
    ELSE DictUpdate(DictSet(d, o[1].key, o[1].val), Tail(o))

\* ------------------------------------------------------------------ state

VARIABLES
    _connected,              \* self._connected
    _backlog_subscriptions,  \* self._backlog_subscriptions
    _subscriptions,          \* self._subscriptions
    _next_sub_id,            \* self._next_sub_id
    _reconnect,              \* self._reconnect
    _reconnect_error,        \* self._reconnect_error (Unset until first assigned)
    _reconnect_status_code,  \* self._reconnect_status_code
    _reconnect_message,      \* self._reconnect_message
    ws_state,                \* the current WebSocketApp and its thread
    conn_no,                 \* number of WebSocketApp instances created so far
    wire,                    \* frames sent on the current WebSocketApp
    regs,                    \* per topic, the callbacks passed to subscribe, in call order
    invoked,                 \* callback invocations made by the last step
    err,                     \* exception the last step ended with, or None
    last,                    \* the last step: operation and its arguments
    preClose,                \* _subscriptions as it was when the last close of a Connected period was handled
    regsAtClose,             \* regs as it was at that close
    firstConnected,          \* regs as it was when the first CONNECTED frame was handled, and
                             \* whether that Connected period is still going on (live)
    sends                    \* number of send calls made so far

\* webthing/client.py: WebthingClient (legacy), its actions topic and the server.
VARIABLES
    _action_callbacks,       \* self._action_callbacks: (type, filter_created) per callback
    _actions_created,        \* self._actions_created
    posts,                   \* actions marked by _send_action whose POST is still to be issued
    topic_actions,           \* action messages published by the server, not yet handled
    action_no,               \* number of actions created so far
    processed,               \* <<m>> for the message m handled by the last step, else <<>>
    delivered                \* positions in _action_callbacks of the callbacks it invoked

\* webthing_client/client.py: create_simple_resolution.
VARIABLES
    requests,                \* argument requests: (iri, operation) per request
    accapted_request_iri,    \* argument accapted_request_iri
    resolution               \* <<a>> for the arguments a create_resolution was called with, else <<>>

\* standard_api/api_handler.py: ApiRequester.call.
VARIABLES
    _before_request,         \* self._before_request: a hook or None
    _after_request,          \* self._after_request: a hook or None
    response,                \* what requests.post returns: status_code and text
    api_trace,               \* hooks and POST, in the order call made them
    api_result               \* <<o>> for the outcome o of call (returned or raised), else <<>>

\* webthing_client/client.py: WebthingClient.__init__.
VARIABLES
    webthing_fqdn,           \* argument webthing_fqdn
    secure,                  \* argument secure
    _ws_uri                  \* self._ws_uri; <<>> before construction

\* webthing_client/stomp.py: the WebSocketApps and threads that
\* _init_websocket has created.
VARIABLES
    apps,                    \* one entry per WebSocketApp created, in order, with the state
                             \* of its thread: "connecting", "open", "closed" (socket gone,
                             \* _on_close not yet called), "sleeping" (in the sleep of
                             \* _on_close) or "done" (run_forever has returned)
    _ws,                     \* self._ws: the index in apps of the WebSocketApp it refers to
    openers                  \* who called _init_websocket, call by call: "__init__",
                             \* "_on_close" or "caller"

\* webthing_client/stomp.py, statement by statement: the two threads.
VARIABLES
    caller,                  \* the caller thread: the line of subscribe/_subscribe it is about
                             \* to execute, with the arguments of the call
    handler,                 \* the websocket thread: the line of _connected_message/_on_close
                             \* it is about to execute
    shared,                  \* topics whose callback list is one list object held by both
                             \* maps (after backlog.update(subscriptions), line 94)
    registered               \* per topic, the callbacks whose subscribe call returned normally,
                             \* each with the _connected value the call read, the
                             \* connection it read it on, and whether the call began and
                             \* returned during the sleep of _on_close (line 116)

stompVars == <<_connected, _backlog_subscriptions, _subscriptions, _next_sub_id,
               _reconnect, _reconnect_error, _reconnect_status_code, _reconnect_message,
               ws_state, conn_no, wire, regs, invoked, err, last,
               preClose, regsAtClose, firstConnected, sends>>

legacyVars == <<_action_callbacks, _actions_created, posts, topic_actions, action_no,
                processed, delivered>>

resolutionVars == <<requests, accapted_request_iri, resolution>>

apiVars == <<_before_request, _after_request, response, api_trace, api_result>>

uriVars == <<webthing_fqdn, secure, _ws_uri>>

threadVars == <<caller, handler, shared, registered>>

\* The callers of the transport.
openVars == <<apps, _ws, openers>>

clientVars == <<legacyVars, resolutionVars, apiVars, uriVars, openVars>>

\* What the transport, one operation a step, leaves alone.
callerVars == <<clientVars, threadVars>>

vars == <<stompVars, callerVars>>

history == <<preClose, regsAtClose, firstConnected>>

registry == <<_connected, _backlog_subscriptions, _subscriptions, _next_sub_id>>

supervisor == <<_reconnect, _reconnect_error, _reconnect_status_code, _reconnect_message>>

Event(op, topic, cb, payload) == [op |-> op, topic |-> topic, cb |-> cb, payload |-> payload]

SubscribeCalls == Len(regs["A"]) + Len(regs["B"])

\* Calls made by callers so far.
Calls == SubscribeCalls + sends

\* ------------------------------------------------------------ frame codec

\* Frames this client puts on the wire.
ConnectFrame == [cmd |-> "CONNECT", destination |-> None, id |-> None, body |-> <<>>]

\* stomper.subscribe(destination, f"sub-{n}", ack="auto"); id holds n.
SubscribeFrame(destination, n) ==
    [cmd |-> "SUBSCRIBE", destination |-> destination, id |-> n, body |-> <<>>]

\* Raw payloads the server side may deliver on an open socket.
ConnectedPayload == <<"CONNECTED", LF, "version:1.1", LF, LF, NUL, LF>>

MessagePayload(destination, body) ==
    <<"MESSAGE", LF, "destination:" \o destination, LF, "message-id:1", LF, LF, body, NUL>>

NoDestinationPayload == <<"MESSAGE", LF, "message-id:1", LF, LF, "hello", NUL>>

ErrorPayload == <<"ERROR", LF, "message:failed", LF, LF, NUL>>

HeartbeatPayloads == {<<>>, <<SP, LF>>}

\* Blank payloads with characters other than space and newline.
OtherBlankPayloads == {<<CR, LF>>}

Bodies == {"hello"}

Payloads ==
    HeartbeatPayloads \cup OtherBlankPayloads
    \cup {ConnectedPayload, NoDestinationPayload, ErrorPayload}
    \cup {MessagePayload(t, b) : t \in Topics, b \in Bodies}

\* A header line "name:value".
HeaderName(line) ==
    CASE line \in {"destination:A", "destination:B"} -> "destination"
      [] line = "message-id:1" -> "message-id"
      [] line = "version:1.1" -> "version"
      [] line = "message:failed" -> "message"
      [] OTHER -> line

HeaderValue(line) ==
    CASE line = "destination:A" -> "A"
      [] line = "destination:B" -> "B"
      [] line = "message-id:1" -> "1"
      [] line = "version:1.1" -> "1.1"
      [] line = "message:failed" -> "failed"
      [] OTHER -> ""

\* str.strip(chars)
RECURSIVE LStrip(_, _)
LStrip(s, chars) ==
    IF s # <<>> /\ s[1] \in chars THEN LStrip(Tail(s), chars) ELSE s

RECURSIVE RStrip(_, _)
RStrip(s, chars) ==
    IF s # <<>> /\ s[Len(s)] \in chars THEN RStrip(SubSeq(s, 1, Len(s) - 1), chars) ELSE s

Strip(s, chars) == RStrip(LStrip(s, chars), chars)

\* Mutant: the payload is compared with "" without stripping it.
IsHeartbeat_NoStrip(stomp_message) == stomp_message = <<>>

\* stomp_message.strip(" \n") == ""
IsHeartbeat(stomp_message) == Strip(stomp_message, {SP, LF}) = <<>>

\* str.split('\n')
RECURSIVE SplitLines(_)
SplitLines(s) ==
    IF \A i \in 1..Len(s) : s[i] # LF THEN <<s>>
    ELSE LET i == CHOOSE j \in 1..Len(s) : s[j] = LF /\ \A k \in 1..(j - 1) : s[k] # LF
         IN <<SubSeq(s, 1, i - 1)>> \o SplitLines(SubSeq(s, i + 1, Len(s)))

RECURSIVE Concat(_)
Concat(ss) == IF ss = <<>> THEN <<>> ELSE ss[1] \o Concat(Tail(ss))

VALID_COMMANDS ==
    {"ABORT", "ACK", "BEGIN", "COMMIT", "CONNECT", "CONNECTED", "DISCONNECT", "MESSAGE",
     "NACK", "SEND", "SUBSCRIBE", "UNSUBSCRIBE", "RECEIPT", "ERROR"}

\* stomper.Frame.unpack: the command is the first line, the headers are the
\* lines up to the first blank line, the body is what follows without its NUL.
\* ok is FALSE where unpack raises FrameError (the command is not a STOMP one).
Unpack(stomp_message) ==
    LET lines == SplitLines(stomp_message)
        cmd == IF Len(lines[1]) = 1 THEN lines[1][1] ELSE ""
        rest == Tail(lines)
        blanks == {i \in 1..Len(rest) : Strip(rest[i], Blank) = <<>>}
        hEnd == IF blanks = {} THEN Len(rest) + 1
                ELSE CHOOSE i \in blanks : \A j \in blanks : i <= j
        hLines == [i \in 1..(hEnd - 1) |-> Strip(rest[i], Blank)[1]]
        names == {HeaderName(hLines[i]) : i \in 1..(hEnd - 1)}
        bLines == [i \in 1..(Len(rest) - hEnd) |-> Strip(rest[hEnd + i], Blank)]
    IN [ok |-> cmd \in VALID_COMMANDS,
        cmd |-> cmd,
        headers |-> [n \in names |->
                       HeaderValue(hLines[CHOOSE i \in 1..(hEnd - 1) :
                                            /\ HeaderName(hLines[i]) = n
                                            /\ \A j \in (i + 1)..(hEnd - 1) : HeaderName(hLines[j]) # n])],
        body |-> SelectSeq(Concat(bLines), LAMBDA c : c # NUL)]

\* What _on_message makes of each payload (lines 52 and 57), computed once.
Decoded ==
    [p \in Payloads |->
        [heartbeat |-> IsHeartbeat(p),
         message |-> IF IsHeartbeat(p) THEN [ok |-> FALSE, cmd |-> "", headers |-> <<>>, body |-> <<>>]
                     ELSE Unpack(p)]]

\* -------------------------------------------------------------- operations

\* Mutant: a SUBSCRIBE frame is sent for every callback.
_subscribe_Always(st, destination, callback) ==
    [subs |-> DictSetDefaultAppend(st.subs, destination, callback),
     wire |-> Append(st.wire, SubscribeFrame(destination, st.next)),
     next |-> st.next + 1]

\* StompWebsocket._subscribe on st = (subscriptions, frames sent, next id), with
\* a socket that accepts the frame.
_subscribe(st, destination, callback) ==
    LET first == Len(DictGet(st.subs, destination, <<>>)) = 0
    IN [subs |-> DictSetDefaultAppend(st.subs, destination, callback),
        wire |-> IF first THEN Append(st.wire, SubscribeFrame(destination, st.next)) ELSE st.wire,
        next |-> IF first THEN st.next + 1 ELSE st.next]

\* for callback in callbacks: self._subscribe(destination, callback)
RECURSIVE SubscribeEach(_, _, _)
SubscribeEach(st, destination, callbacks) ==
    IF callbacks = <<>> THEN st
    ELSE SubscribeEach(_subscribe(st, destination, callbacks[1]), destination, Tail(callbacks))

\* for destination, callbacks in self._backlog_subscriptions.items(): ...
RECURSIVE SubscribeBacklog(_, _)
SubscribeBacklog(st, backlog) ==
    IF backlog = <<>> THEN st
    ELSE SubscribeBacklog(SubscribeEach(st, backlog[1].key, backlog[1].val), Tail(backlog))

\* Mutant: the backlog is replayed but never emptied.
_connected_message_KeepingBacklog ==
    LET st == SubscribeBacklog([subs |-> _subscriptions, wire |-> wire, next |-> _next_sub_id],
                               _backlog_subscriptions)
    IN /\ _connected' = TRUE
       /\ _subscriptions' = st.subs
       /\ wire' = st.wire
       /\ _next_sub_id' = st.next
       /\ _backlog_subscriptions' = _backlog_subscriptions

\* StompWebsocket._connected_message
_connected_message ==
    LET st == SubscribeBacklog([subs |-> _subscriptions, wire |-> wire, next |-> _next_sub_id],
                               _backlog_subscriptions)
    IN /\ _connected' = TRUE
       /\ _subscriptions' = st.subs
       /\ wire' = st.wire
       /\ _next_sub_id' = st.next
       /\ _backlog_subscriptions' = <<>>

\* Mutant: two WebSocketApps and two threads are started.
_init_websocket_TwoThreads ==
    /\ conn_no < MaxConnects
    /\ ws_state' = "connecting"
    /\ conn_no' = conn_no + 2
    /\ wire' = <<>>

\* StompWebsocket._init_websocket: a new WebSocketApp and its thread.
_init_websocket ==
    /\ conn_no < MaxConnects
    /\ ws_state' = "connecting"
    /\ conn_no' = conn_no + 1
    /\ wire' = <<>>

StompInit ==
    /\ _connected = FALSE
    /\ _backlog_subscriptions = <<>>
    /\ _subscriptions = <<>>
    /\ _next_sub_id = 0
    /\ _reconnect = FALSE
    /\ _reconnect_error = Unset
    /\ _reconnect_status_code = None
    /\ _reconnect_message = None
    /\ ws_state = "connecting"
    /\ conn_no = 1
    /\ wire = <<>>
    /\ regs = [t \in Topics |-> <<>>]
    /\ invoked = <<>>
    /\ err = None
    /\ last = Event("init", None, None, <<>>)
    /\ preClose = <<>>
    /\ regsAtClose = [t \in Topics |-> <<>>]
    /\ firstConnected = [seen |-> FALSE, live |-> FALSE, regs |-> [t \in Topics |-> <<>>]]
    /\ sends = 0

\* ------------------------------------------- callers: values, first states

\* ActionType
ActionTypes == {"create_event", "update_event", "delete_event"}

\* Values of actions (Observation value without the timestamp) that clients
\* create, and one the server may publish that names no ActionType.
ActionValues ==
    {[type |-> "update_event", id |-> "e1"], [type |-> "delete_event", id |-> "e1"]}

UnknownValue == [type |-> "other", id |-> "e1"]

\* Arguments type and filter_created of subscribe_actions.
ActionFilters == [type : {None, "update_event", "delete_event"}, filter_created : BOOLEAN]

\* webthing/client.py, WebthingClient.__init__, lines 29-30.
LegacyInit ==
    /\ _action_callbacks = <<>>
    /\ _actions_created = {}
    /\ posts = <<>>
    /\ topic_actions = <<>>
    /\ action_no = 0
    /\ processed = <<>>
    /\ delivered = <<>>

\* Requests: iri and operation.
RequestIris == {"r1", "r2"}

Operations == {"op1", "op2"}

Requests == [iri : RequestIris, operation : Operations]

RequestLists == UNION {[1..n -> Requests] : n \in 0..MaxRequests}

\* The accepted IRI: of a request, of no request, or None.
AcceptedIris == RequestIris \cup {"r3", None}

\* The arguments of a create_simple_resolution call.
ResolutionInit ==
    /\ requests \in RequestLists
    /\ accapted_request_iri \in AcceptedIris
    /\ resolution = <<>>

ResolutionIdle ==
    /\ requests = <<>>
    /\ accapted_request_iri = None
    /\ resolution = <<>>

\* HTTP status codes and response texts the server may answer with.
StatusCodes == {200, 201, 400, 404, 500}

DataText == "{\"data\": \"d1\"}"

MessageText == "{\"message\": \"m1\"}"

HtmlText == "<html>"

ResponseTexts == {DataText, MessageText, HtmlText}

Hooks == {None, "hook"}

\* An ApiRequester and the response its next POST gets.
ApiInit ==
    /\ _before_request \in Hooks
    /\ _after_request \in Hooks
    /\ response \in [status_code : StatusCodes, text : ResponseTexts]
    /\ api_trace = <<>>
    /\ api_result = <<>>

ApiIdle ==
    /\ _before_request = None
    /\ _after_request = None
    /\ response = [status_code |-> 200, text |-> DataText]
    /\ api_trace = <<>>
    /\ api_result = <<>>

\* Characters of a name: the slash and two others.
SLASH == "/"

FqdnChars == {SLASH, "a", "b"}

Fqdns == UNION {[1..n -> FqdnChars] : n \in 0..MaxFqdnLen}

\* The arguments of WebthingClient(webthing_fqdn, secure=...).
UriInit ==
    /\ webthing_fqdn \in Fqdns
    /\ secure \in BOOLEAN
    /\ _ws_uri = <<>>

UriIdle ==
    /\ webthing_fqdn = <<>>
    /\ secure = TRUE
    /\ _ws_uri = <<>>
\* No subscribe call and no handler is under way.
IdleCaller == [pc |-> "idle", destination |-> None, callback |-> None, read |-> FALSE, conn |-> 0,
               backoff |-> FALSE]

ThreadsIdle ==
    /\ caller = IdleCaller
    /\ handler = "idle"
    /\ shared = {}
    /\ registered = [t \in Topics |-> <<>>]

\* No WebSocketApp is looked at.
OpenIdle ==
    /\ apps = <<>>
    /\ _ws = 0
    /\ openers = <<>>

Init == StompInit /\ LegacyInit /\ ResolutionIdle /\ ApiIdle /\ UriIdle /\ ThreadsIdle /\ OpenIdle

\* StompWebsocket._on_open
OnOpen ==
    /\ UNCHANGED <<sends, callerVars>>
    /\ ws_state = "connecting"
    /\ ws_state' = "open"
    /\ wire' = Append(wire, ConnectFrame)
    /\ invoked' = <<>>
    /\ err' = None
    /\ last' = Event("open", None, None, <<>>)
    /\ UNCHANGED <<registry, supervisor, conn_no, regs, history>>

\* The open socket of the current WebSocketApp goes away (the peer closes it,
\* the connection drops); the library has not called _on_close yet.
SocketCloses ==
    /\ UNCHANGED <<sends, callerVars>>
    /\ ws_state = "open"
    /\ conn_no < MaxConnects
    /\ ws_state' = "closed"
    /\ invoked' = <<>>
    /\ err' = None
    /\ last' = Event("socket_closed", None, None, <<>>)
    /\ UNCHANGED <<registry, supervisor, conn_no, wire, regs, history>>

\* Mutant: the error handler starts the next connection attempt itself.
OnError_Reconnecting(error) ==
    /\ UNCHANGED <<sends, callerVars>>
    /\ ws_state \in {"connecting", "open", "closed"}
    /\ _reconnect_error' = IF ~_reconnect THEN error ELSE _reconnect_error
    /\ _init_websocket
    /\ invoked' = <<>>
    /\ err' = None
    /\ last' = Event("error", None, None, <<>>)
    /\ UNCHANGED <<registry, _reconnect, _reconnect_status_code, _reconnect_message,
                   regs, history>>

\* StompWebsocket._on_error, called by the websocket thread: when the
\* connection attempt fails (the library then goes on to _on_close), or for an
\* error on a socket that was opened.
OnError(error) ==
    /\ UNCHANGED <<sends, callerVars>>
    /\ ws_state \in {"connecting", "open", "closed"}
    /\ ws_state = "connecting" => conn_no < MaxConnects
    /\ _reconnect_error' = IF ~_reconnect THEN error ELSE _reconnect_error
    /\ ws_state' = IF ws_state = "connecting" THEN "closed" ELSE ws_state
    /\ invoked' = <<>>
    /\ err' = None
    /\ last' = Event("error", None, None, <<>>)
    /\ UNCHANGED <<registry, _reconnect, _reconnect_status_code, _reconnect_message,
                   conn_no, wire, regs, history>>

\* _on_message, lines 52-55: an empty message is a heartbeat.
OnHeartbeat(stomp_message) ==
    /\ Decoded[stomp_message].heartbeat
    /\ err' = None
    /\ invoked' = <<>>
    /\ UNCHANGED <<registry, supervisor, ws_state, conn_no, wire, regs, history>>

\* _on_message, line 57: stomper rejects the payload (FrameError).
OnUndecodable(stomp_message) ==
    /\ ~Decoded[stomp_message].heartbeat
    /\ ~Decoded[stomp_message].message.ok
    /\ err' = "FrameError"
    /\ invoked' = <<>>
    /\ UNCHANGED <<registry, supervisor, ws_state, conn_no, wire, regs, history>>

\* Mutant: the CONNECTED frame leaves the reconnect flag as it is.
OnConnected_KeepingFlag(stomp_message) ==
    /\ ~Decoded[stomp_message].heartbeat
    /\ Decoded[stomp_message].message.ok
    /\ Decoded[stomp_message].message.cmd = "CONNECTED"
    /\ _connected_message
    /\ _reconnect' = _reconnect
    /\ _reconnect_error' = None
    /\ _reconnect_status_code' = None
    /\ _reconnect_message' = None
    /\ err' = None
    /\ invoked' = <<>>
    /\ firstConnected' = IF firstConnected.seen THEN firstConnected
                          ELSE [seen |-> TRUE, live |-> TRUE, regs |-> regs]
    /\ UNCHANGED <<ws_state, conn_no, regs, preClose, regsAtClose>>

\* _on_message, lines 58-67: CONNECTED.
OnConnected(stomp_message) ==
    /\ ~Decoded[stomp_message].heartbeat
    /\ Decoded[stomp_message].message.ok
    /\ Decoded[stomp_message].message.cmd = "CONNECTED"
    /\ _connected_message
    /\ _reconnect' = FALSE
    /\ _reconnect_error' = None
    /\ _reconnect_status_code' = None
    /\ _reconnect_message' = None
    /\ err' = None
    /\ invoked' = <<>>
    /\ firstConnected' = IF firstConnected.seen THEN firstConnected
                          ELSE [seen |-> TRUE, live |-> TRUE, regs |-> regs]
    /\ UNCHANGED <<ws_state, conn_no, regs, preClose, regsAtClose>>

\* Mutant: the callbacks are called last registered first.
Dispatch_Reversed(callbacks, body, raises) ==
    [i \in 1..(IF raises = 0 THEN Len(callbacks) ELSE raises) |->
        [callback |-> callbacks[Len(callbacks) + 1 - i], body |-> body]]

\* The callbacks called by "for callback in callbacks: callback(body)" when
\* the raises-th call raises (0: none raises): the loop ends at the raise.
Dispatch(callbacks, body, raises) ==
    [i \in 1..(IF raises = 0 THEN Len(callbacks) ELSE raises) |->
        [callback |-> callbacks[i], body |-> body]]

\* Mutant: self._subscriptions[destination] is read without the membership
\* test, so an unknown destination raises KeyError.
OnMessageFrame_Unchecked(stomp_message) ==
    LET message == Decoded[stomp_message].message
    IN /\ ~Decoded[stomp_message].heartbeat
       /\ message.ok
       /\ message.cmd = "MESSAGE"
       /\ IF "destination" \notin DOMAIN message.headers
             \/ ~DictHas(_subscriptions, message.headers["destination"])
          THEN /\ err' = "KeyError"
               /\ invoked' = <<>>
          ELSE \E raises \in 0..Len(DictGet(_subscriptions, message.headers["destination"], <<>>)) :
                  /\ invoked' = Dispatch(DictGet(_subscriptions, message.headers["destination"], <<>>),
                                         message.body, raises)
                  /\ err' = IF raises = 0 THEN None ELSE "CallbackError"
       /\ UNCHANGED <<registry, supervisor, ws_state, conn_no, wire, regs, history>>

\* _on_message, lines 68-74: MESSAGE.
OnMessageFrame(stomp_message) ==
    LET message == Decoded[stomp_message].message
    IN /\ ~Decoded[stomp_message].heartbeat
       /\ message.ok
       /\ message.cmd = "MESSAGE"
       /\ IF "destination" \notin DOMAIN message.headers
          THEN \* message['headers']['destination'] raises KeyError
               /\ err' = "KeyError"
               /\ invoked' = <<>>
          ELSE LET destination == message.headers["destination"]
               IN IF DictHas(_subscriptions, destination)
                  THEN \E raises \in 0..Len(DictGet(_subscriptions, destination, <<>>)) :
                          /\ invoked' = Dispatch(DictGet(_subscriptions, destination, <<>>),
                                                 message.body, raises)
                          /\ err' = IF raises = 0 THEN None ELSE "CallbackError"
                  ELSE /\ err' = None
                       /\ invoked' = <<>>
       /\ UNCHANGED <<registry, supervisor, ws_state, conn_no, wire, regs, history>>

\* Mutant: any other STOMP command ends the Connected period.
OnOtherFrame_Disconnecting(stomp_message) ==
    /\ ~Decoded[stomp_message].heartbeat
    /\ Decoded[stomp_message].message.ok
    /\ Decoded[stomp_message].message.cmd \notin {"CONNECTED", "MESSAGE"}
    /\ err' = None
    /\ invoked' = <<>>
    /\ _connected' = FALSE
    /\ UNCHANGED <<_backlog_subscriptions, _subscriptions, _next_sub_id, supervisor, ws_state,
                   conn_no, wire, regs, history>>

\* _on_message, fall through: any other STOMP command.
OnOtherFrame(stomp_message) ==
    /\ ~Decoded[stomp_message].heartbeat
    /\ Decoded[stomp_message].message.ok
    /\ Decoded[stomp_message].message.cmd \notin {"CONNECTED", "MESSAGE"}
    /\ err' = None
    /\ invoked' = <<>>
    /\ UNCHANGED <<registry, supervisor, ws_state, conn_no, wire, regs, history>>

\* StompWebsocket._on_message, called by the websocket thread for a payload
\* read from the open socket.
OnMessage(stomp_message) ==
    /\ UNCHANGED <<sends, callerVars>>
    /\ ws_state = "open"
    /\ last' = Event("message", None, None, stomp_message)
    /\ \/ OnHeartbeat(stomp_message)
       \/ OnUndecodable(stomp_message)
       \/ OnConnected(stomp_message)
       \/ OnMessageFrame(stomp_message)
       \/ OnOtherFrame(stomp_message)

\* Mutant: the subscriptions are dropped instead of moved to the backlog.
CloseRegistry_Dropping ==
    /\ _connected' = FALSE
    /\ _backlog_subscriptions' = _backlog_subscriptions
    /\ _subscriptions' = <<>>
    /\ _next_sub_id' = 0
    /\ preClose' = IF _connected THEN _subscriptions ELSE preClose
    /\ regsAtClose' = IF _connected THEN regs ELSE regsAtClose
    /\ firstConnected' = [firstConnected EXCEPT !.live = FALSE]

\* _on_close, lines 93-96.
CloseRegistry ==
    /\ _connected' = FALSE
    /\ _backlog_subscriptions' = DictUpdate(_backlog_subscriptions, _subscriptions)
    /\ _subscriptions' = <<>>
    /\ _next_sub_id' = 0
    /\ preClose' = IF _connected THEN _subscriptions ELSE preClose
    /\ regsAtClose' = IF _connected THEN regs ELSE regsAtClose
    /\ firstConnected' = [firstConnected EXCEPT !.live = FALSE]

\* Mutant: the first disconnect sleeps before it reconnects, like the later ones.
OnCloseFirst_Sleeping(status_code, message) ==
    /\ ~_reconnect
    /\ _connected' = FALSE
    /\ _backlog_subscriptions' = DictUpdate(_backlog_subscriptions, _subscriptions)
    /\ _subscriptions' = <<>>
    /\ _next_sub_id' = 0
    /\ preClose' = IF _connected THEN _subscriptions ELSE preClose
    /\ regsAtClose' = IF _connected THEN regs ELSE regsAtClose
    /\ firstConnected' = [firstConnected EXCEPT !.live = FALSE]
    /\ _reconnect' = TRUE
    /\ _reconnect_status_code' = status_code
    /\ _reconnect_message' = message
    /\ ws_state' = "sleeping"
    /\ err' = None
    /\ UNCHANGED <<_reconnect_error, conn_no, wire>>

\* _on_close, lines 99-103: the first disconnect.
OnCloseFirst(status_code, message) ==
    /\ ~_reconnect
    /\ CloseRegistry
    /\ _reconnect' = TRUE
    /\ _reconnect_status_code' = status_code
    /\ _reconnect_message' = message
    /\ _init_websocket
    /\ err' = None
    /\ UNCHANGED <<_reconnect_error>>

\* _on_close, lines 104-116, up to the sleep.
OnCloseAgain(status_code, message) ==
    /\ _reconnect
    /\ _reconnect_error # Unset
    /\ CloseRegistry
    /\ _reconnect_error' = None
    /\ _reconnect_status_code' = None
    /\ _reconnect_message' = None
    /\ ws_state' = "sleeping"
    /\ err' = None
    /\ UNCHANGED <<_reconnect, conn_no, wire>>

\* _on_close, line 107 when self._reconnect_error was never assigned: the
\* read raises AttributeError, the handler ends there and its thread with it.
OnCloseAttributeError ==
    /\ _reconnect
    /\ _reconnect_error = Unset
    /\ CloseRegistry
    /\ ws_state' = "none"
    /\ err' = "AttributeError"
    /\ UNCHANGED <<supervisor, conn_no, wire>>

\* StompWebsocket._on_close, called by the websocket thread once the socket
\* is gone.
OnClose(status_code, message) ==
    /\ UNCHANGED <<sends, callerVars>>
    /\ ws_state = "closed"
    /\ last' = Event("close", None, None, <<>>)
    /\ invoked' = <<>>
    /\ UNCHANGED regs
    /\ \/ OnCloseFirst(status_code, message)
       \/ OnCloseAgain(status_code, message)
       \/ OnCloseAttributeError

\* _on_close, lines 116-117: the sleep is over.
BackoffElapsed ==
    /\ UNCHANGED <<sends, callerVars>>
    /\ ws_state = "sleeping"
    /\ _init_websocket
    /\ last' = Event("backoff_elapsed", None, None, <<>>)
    /\ invoked' = <<>>
    /\ err' = None
    /\ UNCHANGED <<registry, supervisor, regs, history>>

\* StompWebsocket.subscribe, called by a caller thread.
Subscribe(destination, callback) ==
    /\ UNCHANGED <<sends, callerVars>>
    /\ Calls < MaxCalls
    /\ regs' = [regs EXCEPT ![destination] = Append(@, callback)]
    /\ last' = Event("subscribe", destination, callback, <<>>)
    /\ invoked' = <<>>
    /\ IF _connected = FALSE
       THEN /\ _backlog_subscriptions' =
                  DictSetDefaultAppend(_backlog_subscriptions, destination, callback)
            /\ err' = None
            /\ UNCHANGED <<_connected, _subscriptions, _next_sub_id, wire>>
       ELSE IF Len(DictGet(_subscriptions, destination, <<>>)) = 0 /\ ws_state # "open"
            THEN \* self._ws.send raises: the socket is gone
                 /\ err' = "WebSocketConnectionClosedException"
                 /\ UNCHANGED <<registry, wire>>
            ELSE LET st == _subscribe([subs |-> _subscriptions, wire |-> wire,
                                       next |-> _next_sub_id], destination, callback)
                 IN /\ _subscriptions' = st.subs
                    /\ wire' = st.wire
                    /\ _next_sub_id' = st.next
                    /\ err' = None
                    /\ UNCHANGED <<_connected, _backlog_subscriptions>>
    /\ UNCHANGED <<supervisor, ws_state, conn_no, history>>

\* Number of SEND frames among the frames sent.
SendCount(frames) == Cardinality({i \in 1..Len(frames) : frames[i].cmd = "SEND"})

\* Mutant: the SEND frame carries no body.
SendFrame_NoBody(destination, message) ==
    [cmd |-> "SEND", destination |-> destination, id |-> None, body |-> <<>>]

\* stomper.send(destination, message)
SendFrame(destination, message) ==
    [cmd |-> "SEND", destination |-> destination, id |-> None, body |-> <<message>>]

\* Mutant: a send that fails marks the transport as disconnected.
Send_Disconnecting(destination, message) ==
    /\ UNCHANGED <<callerVars>>
    /\ Calls < MaxCalls
    /\ sends' = sends + 1
    /\ last' = Event("send", destination, None, <<message>>)
    /\ invoked' = <<>>
    /\ IF ws_state = "open"
       THEN /\ wire' = Append(wire, SendFrame(destination, message))
            /\ err' = None
            /\ _connected' = _connected
       ELSE /\ wire' = wire
            /\ err' = "WebSocketConnectionClosedException"
            /\ _connected' = FALSE
    /\ UNCHANGED <<_backlog_subscriptions, _subscriptions, _next_sub_id, supervisor,
                   ws_state, conn_no, regs, history>>

\* StompWebsocket.send, called by a caller thread.  WebSocketApp.send raises
\* WebSocketConnectionClosedException when it has no open socket.
Send(destination, message) ==
    /\ UNCHANGED <<callerVars>>
    /\ Calls < MaxCalls
    /\ sends' = sends + 1
    /\ last' = Event("send", destination, None, <<message>>)
    /\ invoked' = <<>>
    /\ IF ws_state = "open"
       THEN /\ wire' = Append(wire, SendFrame(destination, message))
            /\ err' = None
       ELSE /\ wire' = wire
            /\ err' = "WebSocketConnectionClosedException"
    /\ UNCHANGED <<registry, supervisor, ws_state, conn_no, regs, history>>

Next ==
    \/ OnOpen
    \/ SocketCloses
    \/ \E error \in SocketErrors : OnError(error)
    \/ \E stomp_message \in Payloads : OnMessage(stomp_message)
    \/ \E ce \in CloseEvents : OnClose(ce[1], ce[2])
    \/ BackoffElapsed
    \/ \E destination \in Topics, callback \in Callbacks : Subscribe(destination, callback)
    \/ \E destination \in Topics, message \in Bodies : Send(destination, message)

Spec == Init /\ [][Next]_vars

\* ------------------------------------- webthing/client.py: action filtering

\* Action.hash: hash(json.dumps(self._value)), the value without the timestamp.
Hash(action) == action.value

\* Action.from_json_observation_string: <<a>> for the Action a of a message,
\* <<>> (None) when its value names no ActionType.
FromJson(message) ==
    IF message.value.type \in ActionTypes
    THEN <<[timestamp |-> message.timestamp, value |-> message.value]>>
    ELSE <<>>

\* The server publishes a message on the actions topic; it reaches this client
\* if it has subscribed to the topic (subscribe_actions, lines 104-105).  own
\* tells whether the action is one this client sent; the client cannot read it.
Publish(value, own) ==
    IF _action_callbacks # <<>>
    THEN Append(topic_actions, [timestamp |-> "t", value |-> value, own |-> own])
    ELSE topic_actions

\* WebthingClient.subscribe_actions
SubscribeActions(type, filter_created) ==
    /\ Len(_action_callbacks) < MaxActionCallbacks
    /\ _action_callbacks' =
          Append(_action_callbacks, [type |-> type, filter_created |-> filter_created])
    /\ processed' = <<>>
    /\ delivered' = <<>>
    /\ UNCHANGED <<_actions_created, posts, topic_actions, action_no>>
    /\ UNCHANGED <<stompVars, resolutionVars, apiVars, uriVars, threadVars, openVars>>

\* self._actions_created.add(action.hash())
MarkCreated(created, action) == created \cup {Hash(action)}

\* WebthingClient._send_action, line 109 (send_*_action builds the action
\* with timestamp None): the action is marked, its POST comes next.
SendAction(value) ==
    /\ action_no < MaxActions
    /\ action_no' = action_no + 1
    /\ _actions_created' = MarkCreated(_actions_created, [timestamp |-> None, value |-> value])
    /\ posts' = Append(posts, [timestamp |-> None, value |-> value])
    /\ processed' = <<>>
    /\ delivered' = <<>>
    /\ UNCHANGED <<_action_callbacks, topic_actions>>
    /\ UNCHANGED <<stompVars, resolutionVars, apiVars, uriVars, threadVars, openVars>>

\* WebthingClient._send_action, line 110: the POST reaches the server, which
\* accepts the action and publishes it, or refuses it (response.ok is False).
PostAction(ok) ==
    /\ posts # <<>>
    /\ posts' = Tail(posts)
    /\ topic_actions' = IF ok THEN Publish(Head(posts).value, TRUE) ELSE topic_actions
    /\ processed' = <<>>
    /\ delivered' = <<>>
    /\ UNCHANGED <<_action_callbacks, _actions_created, action_no>>
    /\ UNCHANGED <<stompVars, resolutionVars, apiVars, uriVars, threadVars, openVars>>

\* Another client's action (or a value that is no action) is published.
ForeignAction(value) ==
    /\ action_no < MaxActions
    /\ action_no' = action_no + 1
    /\ topic_actions' = Publish(value, FALSE)
    /\ processed' = <<>>
    /\ delivered' = <<>>
    /\ UNCHANGED <<_action_callbacks, _actions_created, posts>>
    /\ UNCHANGED <<stompVars, resolutionVars, apiVars, uriVars, threadVars, openVars>>

\* The callbacks _process_action invokes, lines 90-93, as positions in
\* _action_callbacks, in the order of the loop.
ActionDispatch(callbacks, action, self_created) ==
    SelectSeq([i \in 1..Len(callbacks) |-> i],
              LAMBDA i : /\ callbacks[i].type = None \/ callbacks[i].type = action.value.type
                         /\ ~self_created \/ ~callbacks[i].filter_created)

\* WebthingClient._process_action, for the next message of the actions topic.
ProcessAction ==
    /\ topic_actions # <<>>
    /\ topic_actions' = Tail(topic_actions)
    /\ processed' = <<Head(topic_actions)>>
    /\ LET action == FromJson(Head(topic_actions))
       IN IF action = <<>>
          THEN /\ delivered' = <<>>
               /\ UNCHANGED _actions_created
          ELSE /\ delivered' = ActionDispatch(_action_callbacks, action[1],
                                              Hash(action[1]) \in _actions_created)
               /\ _actions_created' = _actions_created \ {Hash(action[1])}
    /\ UNCHANGED <<_action_callbacks, posts, action_no>>
    /\ UNCHANGED <<stompVars, resolutionVars, apiVars, uriVars, threadVars, openVars>>

LegacyNext ==
    \/ \E f \in ActionFilters : SubscribeActions(f.type, f.filter_created)
    \/ \E value \in ActionValues : SendAction(value)
    \/ \E ok \in BOOLEAN : PostAction(ok)
    \/ \E value \in ActionValues \cup {UnknownValue} : ForeignAction(value)
    \/ ProcessAction

InitLegacy == StompInit /\ LegacyInit /\ ResolutionIdle /\ ApiIdle /\ UriIdle /\ ThreadsIdle /\ OpenIdle

LegacySpec == InitLegacy /\ [][LegacyNext]_vars

\* --------------------- webthing_client/client.py: create_simple_resolution

ACCEPTED == "ACCEPTED"

REJECTED == "REJECTED"

\* Mutant: a request that is not the accepted one resets the operation.
ResolutionLoopBody_Resetting(st, request, accepted) ==
    IF request.iri = accepted
    THEN [operation |-> request.operation,
          verdicts |-> DictSet(st.verdicts, request.iri, ACCEPTED)]
    ELSE [operation |-> None,
          verdicts |-> DictSet(st.verdicts, request.iri, REJECTED)]

\* create_simple_resolution, lines 637-641: the body of the loop, on
\* st = (operation, verdicts).
ResolutionLoopBody(st, request, accepted) ==
    IF request.iri = accepted
    THEN [operation |-> request.operation,
          verdicts |-> DictSet(st.verdicts, request.iri, ACCEPTED)]
    ELSE [operation |-> st.operation,
          verdicts |-> DictSet(st.verdicts, request.iri, REJECTED)]

\* for request in requests: ...
RECURSIVE ResolutionLoop(_, _, _)
ResolutionLoop(st, reqs, accepted) ==
    IF reqs = <<>> THEN st
    ELSE ResolutionLoop(ResolutionLoopBody(st, reqs[1], accepted), Tail(reqs), accepted)

\* WebthingClient.create_simple_resolution, up to the call of
\* create_resolution(verdicts, operation).
CreateSimpleResolution ==
    /\ resolution = <<>>
    /\ resolution' = <<ResolutionLoop([operation |-> None, verdicts |-> <<>>],
                                      requests, accapted_request_iri)>>
    /\ UNCHANGED <<requests, accapted_request_iri>>
    /\ UNCHANGED <<stompVars, legacyVars, apiVars, uriVars, threadVars, openVars>>

ResolutionNext == CreateSimpleResolution

InitResolution == StompInit /\ LegacyInit /\ ResolutionInit /\ ApiIdle /\ UriIdle /\ ThreadsIdle /\ OpenIdle

ResolutionSpec == InitResolution /\ [][ResolutionNext]_vars

\* ------------------------ standard_api/api_handler.py: ApiRequester.call

\* json.loads(text): the object, or raised where the text is no JSON.
JsonLoads(text) ==
    CASE text = DataText -> [raised |-> FALSE, object |-> [data |-> "d1"]]
      [] text = MessageText -> [raised |-> FALSE, object |-> [message |-> "m1"]]
      [] OTHER -> [raised |-> TRUE, object |-> <<>>]

\* ApiBase._get_status
_get_status(status_code) ==
    IF status_code = 200 THEN "SUCCESS"
    ELSE IF status_code = 400 THEN "ERROR"
    ELSE "OTHER"

Returned(value) == [kind |-> "returned", value |-> value, message |-> None]

Raised(exception, message) == [kind |-> "raised", value |-> exception, message |-> message]

\* ApiRequester.call, lines 116-146: how the call ends for a response.
CallOutcome(r) ==
    LET response_status == _get_status(r.status_code)
        loaded == JsonLoads(r.text)
    IN IF response_status = "SUCCESS"
       THEN IF loaded.raised THEN Raised("JSONDecodeError", None)
            ELSE IF "data" \notin DOMAIN loaded.object THEN Raised("KeyError", None)
            ELSE Returned(loaded.object["data"])
       ELSE IF response_status = "ERROR"
       THEN IF loaded.raised THEN Raised("JSONDecodeError", None)
            ELSE Raised("ApiRequestingException", "API calling error")
       ELSE Raised("ApiRequestingException", "API calling failed")

\* ApiRequester.call: the hooks and the POST in the order of lines 103-114,
\* then the outcome.
Call ==
    /\ api_result = <<>>
    /\ api_trace' = (IF _before_request # None THEN <<"before_request">> ELSE <<>>)
                    \o <<"post">>
                    \o (IF _after_request # None THEN <<"after_request">> ELSE <<>>)
    /\ api_result' = <<CallOutcome(response)>>
    /\ UNCHANGED <<_before_request, _after_request, response>>
    /\ UNCHANGED <<stompVars, legacyVars, resolutionVars, uriVars, threadVars, openVars>>

ApiNext == Call

InitApi == StompInit /\ LegacyInit /\ ResolutionIdle /\ ApiInit /\ UriIdle /\ ThreadsIdle /\ OpenIdle

ApiSpec == InitApi /\ [][ApiNext]_vars

\* --------------------------- webthing_client/client.py: the websocket URI

\* Mutant: only the slashes at the end of the name are removed.
WsUri_TrailingOnly(fqdn, tls) ==
    (IF tls THEN <<"wss://">> ELSE <<"ws://">>) \o RStrip(fqdn, {SLASH}) \o <<"/websocket-stomp">>

\* WebthingClient.__init__, lines 54-61: webthing_fqdn.strip('/') between the
\* scheme and the path.
WsUri(fqdn, tls) ==
    (IF tls THEN <<"wss://">> ELSE <<"ws://">>) \o Strip(fqdn, {SLASH}) \o <<"/websocket-stomp">>

\* WebthingClient.__init__
NewWebthingClient ==
    /\ _ws_uri = <<>>
    /\ _ws_uri' = WsUri(webthing_fqdn, secure)
    /\ UNCHANGED <<webthing_fqdn, secure>>
    /\ UNCHANGED <<stompVars, legacyVars, resolutionVars, apiVars, threadVars, openVars>>

UriNext == NewWebthingClient

InitUri == StompInit /\ LegacyInit /\ ResolutionIdle /\ ApiIdle /\ UriInit /\ ThreadsIdle /\ OpenIdle

UriSpec == InitUri /\ [][UriNext]_vars

\* ------------------------------- stomp.py statement by statement: threads

\* WebSocketApps alive: their thread has not ended.
Active(as) == {i \in 1..Len(as) : as[i] # "done"}

\* WebSocketApps with a connection or a connection attempt.
Connections(as) == {i \in 1..Len(as) : as[i] \in {"connecting", "open"}}

\* StompWebsocket._init_websocket, lines 39-43, called by who: a new
\* WebSocketApp is assigned to self._ws and a new thread is started on its
\* run_forever, whatever the earlier ones do.
InitWebsocket(as, who) ==
    /\ Len(as) < MaxApps
    /\ apps' = Append(as, "connecting")
    /\ _ws' = Len(as) + 1
    /\ openers' = Append(openers, who)

\* _init_websocket is called on the object from outside: the open operation
\* is invoked again.
CallInitWebsocket ==
    /\ InitWebsocket(apps, "caller")
    /\ UNCHANGED <<stompVars, legacyVars, resolutionVars, apiVars, uriVars, threadVars>>

\* The connection attempt of WebSocketApp i succeeds: its socket is open.
AppOpens(i) ==
    /\ apps[i] = "connecting"
    /\ apps' = [apps EXCEPT ![i] = "open"]
    /\ UNCHANGED <<_ws, openers>>
    /\ UNCHANGED <<stompVars, legacyVars, resolutionVars, apiVars, uriVars, threadVars>>

\* The connection attempt of WebSocketApp i fails or its socket goes away.
AppSocketCloses(i) ==
    /\ apps[i] \in {"connecting", "open"}
    /\ apps' = [apps EXCEPT ![i] = "closed"]
    /\ UNCHANGED <<_ws, openers>>
    /\ UNCHANGED <<stompVars, legacyVars, resolutionVars, apiVars, uriVars, threadVars>>

\* _on_close on the thread of WebSocketApp i, lines 98-103: the first
\* disconnect calls _init_websocket and the thread ends.
AppOnCloseFirst(i) ==
    /\ apps[i] = "closed"
    /\ InitWebsocket([apps EXCEPT ![i] = "done"], "_on_close")
    /\ UNCHANGED <<stompVars, legacyVars, resolutionVars, apiVars, uriVars, threadVars>>

\* _on_close on the thread of WebSocketApp i, lines 104-116: a later
\* disconnect sleeps first.
AppOnCloseAgain(i) ==
    /\ apps[i] = "closed"
    /\ apps' = [apps EXCEPT ![i] = "sleeping"]
    /\ UNCHANGED <<_ws, openers>>
    /\ UNCHANGED <<stompVars, legacyVars, resolutionVars, apiVars, uriVars, threadVars>>

\* _on_close on the thread of WebSocketApp i, line 107 raising AttributeError:
\* the thread ends and nothing is started.
AppOnCloseAttributeError(i) ==
    /\ apps[i] = "closed"
    /\ apps' = [apps EXCEPT ![i] = "done"]
    /\ UNCHANGED <<_ws, openers>>
    /\ UNCHANGED <<stompVars, legacyVars, resolutionVars, apiVars, uriVars, threadVars>>

\* _on_close on the thread of WebSocketApp i, lines 116-117: the sleep is
\* over, _init_websocket is called and the thread ends.
AppBackoffElapsed(i) ==
    /\ apps[i] = "sleeping"
    /\ InitWebsocket([apps EXCEPT ![i] = "done"], "_on_close")
    /\ UNCHANGED <<stompVars, legacyVars, resolutionVars, apiVars, uriVars, threadVars>>

OpenNext ==
    \/ CallInitWebsocket
    \/ \E i \in 1..Len(apps) : AppOpens(i)
    \/ \E i \in 1..Len(apps) : AppSocketCloses(i)
    \/ \E i \in 1..Len(apps) : AppOnCloseFirst(i)
    \/ \E i \in 1..Len(apps) : AppOnCloseAgain(i)
    \/ \E i \in 1..Len(apps) : AppOnCloseAttributeError(i)
    \/ \E i \in 1..Len(apps) : AppBackoffElapsed(i)

\* StompWebsocket.__init__, line 33: the constructor has called
\* _init_websocket once.
OpenInit ==
    /\ apps = <<"connecting">>
    /\ _ws = 1
    /\ openers = <<"__init__">>

InitOpen == StompInit /\ LegacyInit /\ ResolutionIdle /\ ApiIdle /\ UriIdle /\ ThreadsIdle /\ OpenInit

\* OpenSpec: the WebSocketApps and threads that _init_websocket creates, with
\* the three ways _on_close can end (which of them a disconnect takes is
\* decided by _reconnect and _reconnect_error, see OnClose).
OpenSpec == InitOpen /\ [][OpenNext]_vars

\* What the statements of subscribe, _connected_message and _on_close leave
\* alone.
ledger == <<invoked, preClose, regsAtClose, firstConnected, sends, clientVars>>

bookkeeping == <<last, ledger>>

\* A caller thread calls subscribe(destination, callback).
CallSubscribe(destination, callback) ==
    /\ caller.pc = "idle"
    /\ Calls < MaxCalls
    /\ caller' = [pc |-> "127", destination |-> destination, callback |-> callback,
                  read |-> FALSE, conn |-> 0, backoff |-> ws_state = "sleeping"]
    /\ regs' = [regs EXCEPT ![destination] = Append(@, callback)]
    /\ last' = Event("subscribe", destination, callback, <<>>)
    /\ err' = None
    /\ UNCHANGED <<registry, supervisor, ws_state, conn_no, wire, handler, shared,
                   registered, ledger>>

\* subscribe, line 127: if self._connected == False
Subscribe127 ==
    /\ caller.pc = "127"
    /\ caller' = [caller EXCEPT !.pc = IF _connected = FALSE THEN "128" ELSE "135",
                                !.read = _connected,
                                !.conn = conn_no]
    /\ UNCHANGED <<registry, supervisor, ws_state, conn_no, wire, regs, err, handler,
                   shared, registered, bookkeeping>>

\* The call returns normally.
Returns ==
    /\ registered' = [registered EXCEPT ![caller.destination] =
                         Append(@, [callback |-> caller.callback, read |-> caller.read,
                                    conn |-> caller.conn,
                                    backoff |-> caller.backoff /\ ws_state = "sleeping"])]
    /\ caller' = IdleCaller

\* subscribe, line 128: self._backlog_subscriptions.setdefault(destination, []).append(callback)
Subscribe128 ==
    /\ caller.pc = "128"
    /\ _backlog_subscriptions' =
          DictSetDefaultAppend(_backlog_subscriptions, caller.destination, caller.callback)
    /\ _subscriptions' = IF caller.destination \in shared
                          THEN DictSetDefaultAppend(_subscriptions, caller.destination,
                                                    caller.callback)
                          ELSE _subscriptions
    /\ Returns
    /\ UNCHANGED <<_connected, _next_sub_id, supervisor, ws_state, conn_no, wire, regs, err,
                   handler, shared, bookkeeping>>

\* _subscribe, line 135: if len(self._subscriptions.get(destination, [])) == 0
Subscribe135 ==
    /\ caller.pc = "135"
    /\ caller' = [caller EXCEPT !.pc =
                     IF Len(DictGet(_subscriptions, caller.destination, <<>>)) = 0
                     THEN "136" ELSE "138"]
    /\ UNCHANGED <<registry, supervisor, ws_state, conn_no, wire, regs, err, handler,
                   shared, registered, bookkeeping>>

\* _subscribe, line 136: self._ws.send(stomper.subscribe(...)); it raises when
\* the current WebSocketApp has no open socket, and the call ends there.
Subscribe136 ==
    /\ caller.pc = "136"
    /\ IF ws_state = "open"
       THEN /\ wire' = Append(wire, SubscribeFrame(caller.destination, _next_sub_id))
            /\ caller' = [caller EXCEPT !.pc = "137"]
            /\ err' = None
       ELSE /\ wire' = wire
            /\ caller' = IdleCaller
            /\ err' = "WebSocketConnectionClosedException"
    /\ UNCHANGED <<registry, supervisor, ws_state, conn_no, regs, handler, shared,
                   registered, bookkeeping>>

\* _subscribe, line 137: self._next_sub_id += 1
Subscribe137 ==
    /\ caller.pc = "137"
    /\ _next_sub_id' = _next_sub_id + 1
    /\ caller' = [caller EXCEPT !.pc = "138"]
    /\ UNCHANGED <<_connected, _backlog_subscriptions, _subscriptions, supervisor, ws_state,
                   conn_no, wire, regs, err, handler, shared, registered, bookkeeping>>

\* _subscribe, line 138: self._subscriptions.setdefault(destination, []).append(callback)
Subscribe138 ==
    /\ caller.pc = "138"
    /\ _subscriptions' =
          DictSetDefaultAppend(_subscriptions, caller.destination, caller.callback)
    /\ _backlog_subscriptions' = IF caller.destination \in shared
                                  THEN DictSetDefaultAppend(_backlog_subscriptions,
                                                            caller.destination, caller.callback)
                                  ELSE _backlog_subscriptions
    /\ Returns
    /\ UNCHANGED <<_connected, _next_sub_id, supervisor, ws_state, conn_no, wire, regs, err,
                   handler, shared, bookkeeping>>

\* The websocket thread handles the CONNECTED frame of the connection:
\* _on_message, lines 52-59, then _connected_message, line 77:
\* self._connected = True
Connected77(stomp_message) ==
    /\ handler = "idle"
    /\ ws_state = "open"
    /\ ~_connected
    /\ ~Decoded[stomp_message].heartbeat
    /\ Decoded[stomp_message].message.ok
    /\ Decoded[stomp_message].message.cmd = "CONNECTED"
    /\ _connected' = TRUE
    /\ handler' = "78"
    /\ last' = Event("message", None, None, stomp_message)
    /\ err' = None
    /\ UNCHANGED <<_backlog_subscriptions, _subscriptions, _next_sub_id, supervisor, ws_state,
                   conn_no, wire, regs, caller, shared, registered, ledger>>

\* _connected_message, lines 78-80: the loops over the backlog, run through
\* without a turn of the caller thread.
Connected78 ==
    LET st == SubscribeBacklog([subs |-> _subscriptions, wire |-> wire, next |-> _next_sub_id],
                               _backlog_subscriptions)
    IN /\ handler = "78"
       /\ _subscriptions' = st.subs
       /\ wire' = st.wire
       /\ _next_sub_id' = st.next
       /\ handler' = "82"
       /\ UNCHANGED <<_connected, _backlog_subscriptions, supervisor, ws_state, conn_no, regs,
                      err, caller, shared, registered, bookkeeping>>

\* _connected_message, line 82: self._backlog_subscriptions = {}, and then
\* _on_message, lines 63-66.
Connected82 ==
    /\ handler = "82"
    /\ _backlog_subscriptions' = <<>>
    /\ _reconnect' = FALSE
    /\ _reconnect_error' = None
    /\ _reconnect_status_code' = None
    /\ _reconnect_message' = None
    /\ handler' = "idle"
    /\ UNCHANGED <<_connected, _subscriptions, _next_sub_id, ws_state, conn_no, wire, regs,
                   err, caller, shared, registered, bookkeeping>>

\* The websocket thread handles the close of the connection.
\* _on_close, line 93: self._connected = False
Close93 ==
    /\ handler = "idle"
    /\ ws_state = "closed"
    /\ _connected' = FALSE
    /\ handler' = "94"
    /\ last' = Event("close", None, None, <<>>)
    /\ err' = None
    /\ UNCHANGED <<_backlog_subscriptions, _subscriptions, _next_sub_id, supervisor, ws_state,
                   conn_no, wire, regs, caller, shared, registered, ledger>>

\* _on_close, line 94: self._backlog_subscriptions.update(self._subscriptions);
\* the backlog now holds the list objects of the subscriptions.
Close94 ==
    /\ handler = "94"
    /\ _backlog_subscriptions' = DictUpdate(_backlog_subscriptions, _subscriptions)
    /\ shared' = DictKeys(_subscriptions)
    /\ handler' = "95"
    /\ UNCHANGED <<_connected, _subscriptions, _next_sub_id, supervisor, ws_state, conn_no,
                   wire, regs, err, caller, registered, bookkeeping>>

\* _on_close, line 95: self._subscriptions = {}
Close95 ==
    /\ handler = "95"
    /\ _subscriptions' = <<>>
    /\ shared' = {}
    /\ handler' = "96"
    /\ UNCHANGED <<_connected, _backlog_subscriptions, _next_sub_id, supervisor, ws_state,
                   conn_no, wire, regs, err, caller, registered, bookkeeping>>

\* _on_close, line 96: self._next_sub_id = 0, and then lines 98-117 up to the
\* sleep: the branches of OnCloseFirst, OnCloseAgain and OnCloseAttributeError.
Close96(status_code, message) ==
    /\ handler = "96"
    /\ _next_sub_id' = 0
    /\ handler' = "idle"
    /\ \/ /\ ~_reconnect
          /\ _reconnect' = TRUE
          /\ _reconnect_status_code' = status_code
          /\ _reconnect_message' = message
          /\ _init_websocket
          /\ err' = None
          /\ UNCHANGED <<_reconnect_error>>
       \/ /\ _reconnect
          /\ _reconnect_error # Unset
          /\ _reconnect_error' = None
          /\ _reconnect_status_code' = None
          /\ _reconnect_message' = None
          /\ ws_state' = "sleeping"
          /\ err' = None
          /\ UNCHANGED <<_reconnect, conn_no, wire>>
       \/ /\ _reconnect
          /\ _reconnect_error = Unset
          /\ ws_state' = "none"
          /\ err' = "AttributeError"
          /\ UNCHANGED <<supervisor, conn_no, wire>>
    /\ UNCHANGED <<_connected, _backlog_subscriptions, _subscriptions, regs, caller, shared,
                   registered, bookkeeping>>

\* The events of the websocket thread that touch no map, between two handlers.
BetweenHandlers ==
    /\ handler = "idle"
    /\ \/ OnOpen
       \/ SocketCloses
       \/ \E error \in SocketErrors : OnError(error)
       \/ BackoffElapsed

\* The websocket thread handles a MESSAGE frame read from the open socket:
\* _on_message, lines 52-57 and 68-74, between two other handlers.
MessageBetweenHandlers(stomp_message) ==
    /\ handler = "idle"
    /\ ~Decoded[stomp_message].heartbeat
    /\ Decoded[stomp_message].message.ok
    /\ Decoded[stomp_message].message.cmd = "MESSAGE"
    /\ OnMessage(stomp_message)

InterleavedNext ==
    \/ \E destination \in Topics, callback \in Callbacks : CallSubscribe(destination, callback)
    \/ Subscribe127
    \/ Subscribe128
    \/ Subscribe135
    \/ Subscribe136
    \/ Subscribe137
    \/ Subscribe138
    \/ \E stomp_message \in Payloads : Connected77(stomp_message)
    \/ Connected78
    \/ Connected82
    \/ Close93
    \/ Close94
    \/ Close95
    \/ \E ce \in CloseEvents : Close96(ce[1], ce[2])
    \/ BetweenHandlers
    \/ \E stomp_message \in Payloads : MessageBetweenHandlers(stomp_message)

InitInterleaved == Init

InterleavedSpec == InitInterleaved /\ [][InterleavedNext]_vars

\* ----------------------------------------------------------------- claims

\* Number of SUBSCRIBE frames for a destination among the frames sent.
SubscribeCount(frames, destination) ==
    Cardinality({i \in 1..Len(frames) :
                    frames[i].cmd = "SUBSCRIBE" /\ frames[i].destination = destination})

\* The last step handled a decoded frame with this command.
LastIsFrame(cmd) ==
    /\ last.op = "message"
    /\ ~Decoded[last.payload].heartbeat
    /\ Decoded[last.payload].message.ok
    /\ Decoded[last.payload].message.cmd = cmd

\* The last step handled a MESSAGE frame that has a destination header.
LastIsMessageTo(destination) ==
    /\ LastIsFrame("MESSAGE")
    /\ "destination" \in DOMAIN Decoded[last.payload].message.headers
    /\ Decoded[last.payload].message.headers["destination"] = destination

\* The callbacks a topic holds, in the backlog or as subscriptions.
Held(t) == DictGet(_backlog_subscriptions, t, <<>>) \o DictGet(_subscriptions, t, <<>>)

\* The callbacks passed to subscribe for t since the last close of a Connected period.
SinceClose(t) == SubSeq(regs[t], Len(regsAtClose[t]) + 1, Len(regs[t]))

RECURSIVE IsSubsequence(_, _)
IsSubsequence(a, b) ==
    IF a = <<>> THEN TRUE
    ELSE IF b = <<>> THEN FALSE
    ELSE IF a[1] = b[1] THEN IsSubsequence(Tail(a), Tail(b))
    ELSE IsSubsequence(a, Tail(b))

\* C1: after a close of a Connected period, once the CONNECTED frame of a new
\* connection has been handled, exactly one SUBSCRIBE frame has been sent on
\* the new connection for every topic that had callbacks before the close, and
\* the topic's callback list is the list it had before the close (followed by
\* the callbacks subscribed since, if any).
C1_ResubscribeOnReconnect ==
    (LastIsFrame("CONNECTED") /\ preClose # <<>>) =>
        \A t \in DictKeys(preClose) :
            /\ SubscribeCount(wire, t) = 1
            /\ DictGet(_subscriptions, t, <<>>) = DictGet(preClose, t, <<>>) \o SinceClose(t)

\* C1 witness: topics A and B were subscribed, the connection closed, and the
\* CONNECTED frame of a later connection has just been handled.
C1_Witness ==
    /\ LastIsFrame("CONNECTED")
    /\ conn_no >= 2
    /\ DictKeys(preClose) = {"A", "B"}
    /\ _subscriptions = preClose
    /\ SubscribeCount(wire, "A") = 1
    /\ SubscribeCount(wire, "B") = 1

\* C2: for the callbacks subscribed to a topic before the first CONNECTED
\* frame, exactly one SUBSCRIBE frame is sent for the topic when CONNECTED is
\* handled, and a following MESSAGE frame for the topic invokes every one of
\* them.
C2_DedupBeforeFirstConnected ==
    firstConnected.live =>
        \A t \in Topics :
            firstConnected.regs[t] # <<>> =>
                /\ SubscribeCount(wire, t) = 1
                /\ LastIsMessageTo(t) =>
                     \A i \in 1..Len(firstConnected.regs[t]) :
                        \E j \in 1..Len(invoked) :
                            invoked[j].callback = firstConnected.regs[t][i]

C4_CallbackListsAreRegistrationHistory ==
    \A t \in Topics : Held(t) = regs[t]

C6_CallbackIsolation ==
    [][\A t \in Topics :
         (last'.op = "message" /\ LastIsMessageTo(t)' /\ err' = "CallbackError") =>
            /\ Len(invoked') = Len(DictGet(_subscriptions, t, <<>>))
            /\ UNCHANGED registry]_vars

\* C7: a MESSAGE frame whose destination has no entry in _subscriptions
\* invokes no callback, raises nothing and leaves the connection state and
\* both subscription maps unchanged.
C7_UnknownDestination ==
    [][\A t \in Topics :
         (LastIsMessageTo(t)' /\ ~DictHas(_subscriptions, t)) =>
            /\ invoked' = <<>>
            /\ err' = None
            /\ UNCHANGED <<_connected, ws_state, _backlog_subscriptions, _subscriptions>>]_vars

\* C7 witness: Connected with callbacks for A, a MESSAGE frame for B was handled.
C7_Witness ==
    /\ LastIsMessageTo("B")
    /\ _connected
    /\ DictHas(_subscriptions, "A")
    /\ ~DictHas(_subscriptions, "B")
    /\ invoked = <<>>
    /\ err = None

\* The payload is empty or made of whitespace only.
IsBlankPayload(p) == \A i \in 1..Len(p) : p[i] \in Blank

\* The payload is empty or made of spaces and newlines only.
IsSpacesAndNewlines(p) == \A i \in 1..Len(p) : p[i] \in {SP, LF}

\* What a heartbeat must be: nothing invoked, nothing raised, nothing changed.
Transparent ==
    /\ invoked' = <<>>
    /\ err' = None
    /\ UNCHANGED <<_connected, ws_state, _reconnect, _backlog_subscriptions, _subscriptions>>

C9_FirstDisconnectRetriesImmediately ==
    [][(last'.op = "close" /\ ~_reconnect) =>
         /\ ws_state' = "connecting"
         /\ conn_no' = conn_no + 1
         /\ _reconnect']_vars

\* C9 witness: the close of a Connected period with subscriptions was handled
\* and the next connection attempt is under way.
C9_Witness ==
    /\ last.op = "close"
    /\ ws_state = "connecting"
    /\ _reconnect
    /\ firstConnected.seen
    /\ preClose # <<>>

\* C10: a close handled while the reconnect flag is set sleeps for the
\* backoff interval, and the sleep ends with exactly one new connection
\* attempt.
C10_SubsequentDisconnectsBackOff ==
    [][/\ (last'.op = "close" /\ _reconnect) =>
             (ws_state' = "sleeping" /\ conn_no' = conn_no)
       /\ (ws_state = "sleeping" /\ ws_state' # "sleeping") =>
             (ws_state' = "connecting" /\ conn_no' = conn_no + 1)]_vars

\* C11: there is no terminal state: every handled close either starts a new
\* connection attempt or leaves the backoff sleep that starts one under way.
C11_IndefiniteRetry ==
    [][last'.op = "close" => ws_state' \in {"connecting", "sleeping"}]_vars

\* C12: subscribe always succeeds: in every state the call raises nothing and
\* the callback is appended to the callbacks held for the topic.
C12_SubscribeAlwaysSucceeds ==
    [][\A t \in Topics, cb \in Callbacks :
         (last'.op = "subscribe" /\ last'.topic = t /\ last'.cb = cb) =>
            /\ err' = None
            /\ Held(t)' = Append(Held(t), cb)]_vars

\* C13: a send call made while there is no open socket puts no frame on the
\* wire; made while Connected (CONNECTED handled, socket open) it puts exactly
\* one frame on the wire, a SEND frame with the given destination and body.
C13_SendSemantics ==
    [][\A t \in Topics, b \in Bodies :
         (last'.op = "send" /\ last'.topic = t /\ last'.payload = <<b>>) =>
            /\ ws_state # "open" => wire' = wire
            /\ (_connected /\ ws_state = "open") =>
                 /\ Len(wire') = Len(wire) + 1
                 /\ SubSeq(wire', 1, Len(wire)) = wire
                 /\ wire'[Len(wire')].cmd = "SEND"
                 /\ wire'[Len(wire')].destination = t
                 /\ wire'[Len(wire')].body = <<b>>]_vars

\* C13 witness: Connected with a callback subscribed, a send call put its
\* SEND frame for B on the wire after the SUBSCRIBE frame.
C13_Witness ==
    /\ last.op = "send"
    /\ last.topic = "B"
    /\ _connected
    /\ ws_state = "open"
    /\ _subscriptions # <<>>
    /\ SendCount(wire) = 1
    /\ wire[Len(wire)].cmd = "SEND"
    /\ wire[Len(wire)].destination = "B"
    /\ wire[Len(wire)].body = <<"hello">>
    /\ err = None

\* C14: a send call made while there is no open connection raises nothing,
\* sends and queues nothing, and leaves the connection state, the reconnect
\* flag and both subscription maps unchanged.
C14_SendWhileDisconnectedIsSilent ==
    [][(last'.op = "send" /\ ws_state # "open") =>
         /\ err' = None
         /\ wire' = wire
         /\ UNCHANGED <<_connected, ws_state, _reconnect,
                        _backlog_subscriptions, _subscriptions>>]_vars

\* C15: a send call made while _connected is False, in particular between the
\* socket opening and the CONNECTED frame, puts no SEND frame on the wire.
C15_NoSendBeforeConnected ==
    [][(last'.op = "send" /\ ~_connected) => SendCount(wire') = SendCount(wire)]_vars

\* The payload is no heartbeat and no well-formed frame: stomper rejects it,
\* or it is a MESSAGE frame without a destination header.
Undecodable(p) ==
    /\ ~Decoded[p].heartbeat
    /\ \/ ~Decoded[p].message.ok
       \/ /\ Decoded[p].message.cmd = "MESSAGE"
          /\ "destination" \notin DOMAIN Decoded[p].message.headers

\* C16: an undecodable payload is dropped: the message handler raises nothing
\* and invokes nothing, the socket stays open for the frames that follow, and
\* the connection state, the reconnect flag and both subscription maps are
\* unchanged.
C16_DecodeErrorsAreNonFatal ==
    [][(last'.op = "message" /\ Undecodable(last'.payload)) =>
         /\ err' = None
         /\ invoked' = <<>>
         /\ ws_state' = "open"
         /\ UNCHANGED <<_connected, _reconnect,
                        _backlog_subscriptions, _subscriptions>>]_vars

\* The last step invoked the callback at position i of _action_callbacks.
Delivered(i) == \E j \in 1..Len(delivered) : delivered[j] = i

\* C17: a received action is withheld from a callback registered with
\* filter_created=True exactly when it is the echo of an action this client
\* sent; it is delivered to every other callback whose type matches it, and an
\* action of another client is delivered to both kinds.
C17_SelfCreatedActionFiltering ==
    (processed # <<>> /\ FromJson(processed[1]) # <<>>) =>
        \A i \in 1..Len(_action_callbacks) :
            (\/ _action_callbacks[i].type = None
             \/ _action_callbacks[i].type = processed[1].value.type) =>
                (Delivered(i) <=> ~(processed[1].own /\ _action_callbacks[i].filter_created))

\* Positions of the requests whose IRI is the accepted one.
AcceptedRequests == {i \in 1..Len(requests) : requests[i].iri = accapted_request_iri}

\* C18: the verdict map passed to create_resolution has one entry per request
\* IRI, ACCEPTED for the requests whose IRI is the accepted IRI and REJECTED
\* for the others; the operation passed is that of an accepted request, and
\* None when no request has the accepted IRI.
C18_SimpleResolutionAcceptsOneOrNone ==
    resolution # <<>> =>
        LET verdicts == resolution[1].verdicts
            operation == resolution[1].operation
        IN /\ DictKeys(verdicts) = {requests[i].iri : i \in 1..Len(requests)}
           /\ Len(verdicts) = Cardinality(DictKeys(verdicts))
           /\ \A i \in 1..Len(requests) :
                 DictGet(verdicts, requests[i].iri, None) =
                    IF i \in AcceptedRequests THEN ACCEPTED ELSE REJECTED
           /\ IF AcceptedRequests = {} THEN operation = None
              ELSE \E i \in AcceptedRequests : operation = requests[i].operation

\* C18 witness: of three requests the first was accepted and the others,
\* which follow it, rejected; its operation was passed on.
C18_Witness ==
    /\ resolution # <<>>
    /\ Len(requests) = 3
    /\ accapted_request_iri = "r1"
    /\ requests[1] = [iri |-> "r1", operation |-> "op2"]
    /\ requests[2].iri = "r2"
    /\ requests[3].iri = "r2"
    /\ resolution[1].operation = "op2"
    /\ DictGet(resolution[1].verdicts, "r1", None) = ACCEPTED
    /\ DictGet(resolution[1].verdicts, "r2", None) = REJECTED

\* How often e occurs in a sequence.
Occurrences(seq, e) == Cardinality({i \in 1..Len(seq) : seq[i] = e})

\* C19: status 200 returns the 'data' field of the response body, status 400
\* raises ApiRequestingException 'API calling error', any other status raises
\* ApiRequestingException 'API calling failed'; in each case a before_request
\* hook has run once before the POST and an after_request hook once after it.
C19_CallOutcomeByStatus ==
    api_result # <<>> =>
        /\ (response.status_code = 200 /\ response.text = DataText) =>
              api_result[1] = [kind |-> "returned", value |-> "d1", message |-> None]
        /\ response.status_code = 400 =>
              api_result[1] = [kind |-> "raised", value |-> "ApiRequestingException",
                               message |-> "API calling error"]
        /\ response.status_code \notin {200, 400} =>
              api_result[1] = [kind |-> "raised", value |-> "ApiRequestingException",
                               message |-> "API calling failed"]
        /\ Occurrences(api_trace, "post") = 1
        /\ _before_request # None =>
              (Occurrences(api_trace, "before_request") = 1 /\ api_trace[1] = "before_request")
        /\ _after_request # None =>
              /\ Occurrences(api_trace, "after_request") = 1
              /\ api_trace[Len(api_trace)] = "after_request"

\* The name between its first and its last character that is no slash.
Trimmed(name) ==
    LET keep == {i \in 1..Len(name) : name[i] # SLASH}
    IN IF keep = {} THEN <<>>
       ELSE SubSeq(name, CHOOSE i \in keep : \A j \in keep : i <= j,
                         CHOOSE i \in keep : \A j \in keep : j <= i)

\* C20: the websocket URI is 'wss://' when secure and 'ws://' when not,
\* followed by the given name without its leading and trailing slashes, and
\* then by '/websocket-stomp' in both cases.
C20_ConnectionUri ==
    _ws_uri # <<>> =>
        _ws_uri = <<IF secure THEN "wss://" ELSE "ws://">>
                  \o Trimmed(webthing_fqdn) \o <<"/websocket-stomp">>

\* C20 witness: a client built for '/a/' without TLS.
C20_Witness ==
    /\ webthing_fqdn = <<SLASH, "a", SLASH>>
    /\ ~secure
    /\ _ws_uri = <<"ws://", "a", "/websocket-stomp">>

\* No subscribe call and no handler is under way.
Quiescent == caller.pc = "idle" /\ handler = "idle"

\* C21: in every reachable state in which _connected is False, taken between
\* the operations (no subscribe call and no handler under way), no topic holds
\* a wire subscription: _subscriptions is empty.  The state a transition away
\* from Connected ends in is such a state.
C21_NoWireSubscriptionOutsideConnected ==
    Quiescent => (~_connected => _subscriptions = <<>>)

\* C22: with every operation one atomic step, in every reachable state in
\* which _connected is True the backlog is empty, and every topic that holds a
\* callback has had a SUBSCRIBE frame sent on the current connection.
C22_RegisteredTopicsAreWireSubscribed ==
    _connected =>
        /\ _backlog_subscriptions = <<>>
        /\ \A t \in Topics : Held(t) # <<>> => SubscribeCount(wire, t) >= 1

\* C22 witness: two topics were subscribed while disconnected, and the
\* CONNECTED frame replayed them: the backlog is empty and both have their
\* SUBSCRIBE frame on the wire.
C22_Witness ==
    /\ LastIsFrame("CONNECTED")
    /\ _connected
    /\ _backlog_subscriptions = <<>>
    /\ DictKeys(_subscriptions) = Topics
    /\ \A t \in Topics : SubscribeCount(wire, t) = 1

\* The ids of the SUBSCRIBE frames among the frames sent, in the order sent.
RECURSIVE SubscribeIds(_)
SubscribeIds(frames) ==
    IF frames = <<>> THEN <<>>
    ELSE IF frames[1].cmd = "SUBSCRIBE" THEN <<frames[1].id>> \o SubscribeIds(Tail(frames))
    ELSE SubscribeIds(Tail(frames))

\* C26: the SUBSCRIBE frames sent on one connection carry the ids 0, 1, 2, ...
\* in the order they are sent, so no two of them share an id, and the counter
\* is 0 again when the next connection is started; read between the
\* operations (no subscribe call and no handler under way).
C26_WireSubscriptionIds ==
    Quiescent =>
        /\ \A i \in 1..Len(SubscribeIds(wire)) : SubscribeIds(wire)[i] = i - 1
        /\ ws_state = "connecting" => _next_sub_id = 0
        /\ ws_state = "open" => _next_sub_id = Len(SubscribeIds(wire))

\* Number of CONNECT frames among the frames sent.
ConnectCount(frames) == Cardinality({i \in 1..Len(frames) : frames[i].cmd = "CONNECT"})

\* C27: on every connection the socket-open event sends exactly one CONNECT
\* frame and leaves _connected False; _connected becomes True only in a step
\* that handles a CONNECTED frame; and a SUBSCRIBE frame is sent on a
\* connection only once its CONNECTED frame has been handled, after its
\* CONNECT frame.
C27_HandshakeOrdering ==
    [][/\ (ws_state = "connecting" /\ ws_state' = "open") =>
            /\ wire' = <<ConnectFrame>>
            /\ ~_connected /\ ~_connected'
       /\ ConnectCount(wire') <= 1
       /\ (~_connected /\ _connected') => LastIsFrame("CONNECTED")'
       /\ (conn_no' = conn_no /\ Len(SubscribeIds(wire')) > Len(SubscribeIds(wire))) =>
            /\ _connected'
            /\ wire'[1] = ConnectFrame]_vars

\* C28: the step that handles a CONNECTED frame always clears the reconnect
\* flag; only a close sets it; and a close handled with the flag clear starts
\* the next attempt at once.  So the first close after a CONNECTED is handled
\* as a first disconnect however many closes came before that CONNECTED.
C28_ReconnectFlagReset ==
    [][/\ LastIsFrame("CONNECTED")' => ~_reconnect'
       /\ (~_reconnect /\ _reconnect') => last'.op = "close"
       /\ (last'.op = "close" /\ ~_reconnect) =>
            /\ ws_state' = "connecting"
            /\ conn_no' = conn_no + 1]_vars

\* C28 witness: the first connection closed, the second one got its CONNECTED
\* frame with the flag set, and its close started the third attempt at once.
C28_Witness ==
    /\ last.op = "close"
    /\ conn_no = 3
    /\ ws_state = "connecting"
    /\ firstConnected.seen
    /\ _reconnect

\* C29: a step of _on_error, in any state, leaves _connected, the reconnect
\* flag, the backlog, the subscriptions and the subscription id counter as
\* they are and starts no connection attempt.
C29_SocketErrorsChangeNoState ==
    [][last'.op = "error" =>
          /\ UNCHANGED <<_connected, _reconnect, _backlog_subscriptions,
                         _subscriptions, _next_sub_id>>
          /\ conn_no' = conn_no
          /\ ws_state' # "connecting"]_vars

\* C29 witness: an error was handled while Connected with a subscription.
C29_Witness ==
    /\ last.op = "error"
    /\ _connected
    /\ ws_state = "open"
    /\ _subscriptions # <<>>
    /\ conn_no = 1

\* C30: there is one WebSocketApp at a time: the attempts are numbered from
\* the one started at construction, and the next one is started only by the
\* close handler of the current one (at once, or when its sleep is over),
\* after the socket of the current one is gone.
C30_OneConnectionAttemptAtATime ==
    [][/\ conn_no' # conn_no =>
            /\ conn_no' = conn_no + 1
            /\ ws_state \in {"closed", "sleeping"}
            /\ ws_state' = "connecting"
            /\ last'.op \in {"close", "backoff_elapsed"}
       /\ (ws_state # "connecting" /\ ws_state' = "connecting") => conn_no' = conn_no + 1]_vars

\* C30 witness: the third attempt was started by the close handler of the
\* second one when its sleep was over.
C30_Witness ==
    /\ last.op = "backoff_elapsed"
    /\ conn_no = 3
    /\ ws_state = "connecting"

\* A subscribe call has read _connected and has not yet made its update.
CallerInRegistry == caller.pc \in {"128", "135", "136", "137", "138"}

\* The websocket thread is between the first and the last registry statement
\* of _connected_message or of _on_close.
HandlerInRegistry == handler \in {"78", "82", "94", "95", "96"}

\* C23: a subscribe call and the websocket thread's handling of CONNECTED or
\* of a close never overlap on the subscription maps: while one of them is
\* between its read of the registry and its last update of it, the other one
\* is not.
C23_RegistryMutualExclusion ==
    ~(CallerInRegistry /\ HandlerInRegistry)

\* The callbacks whose subscribe call for t returned normally, in order.
RegisteredCallbacks(t) == [i \in 1..Len(registered[t]) |-> registered[t][i].callback]

\* C24: whenever no subscribe call and no handler is under way, every callback
\* whose subscribe call returned is held once for each such call, in the
\* backlog or in the subscriptions of its topic and not in both; this holds
\* after any interleaving of the statements of subscribe with those of the
\* CONNECTED and close handling, and after every later close and reconnect.
C24_NoCallbackLostUnderInterleaving ==
    Quiescent =>
        \A t \in Topics, cb \in Callbacks :
            Occurrences(DictGet(_backlog_subscriptions, t, <<>>), cb)
              + Occurrences(DictGet(_subscriptions, t, <<>>), cb)
            = Occurrences(RegisteredCallbacks(t), cb)

\* C25: a subscribe call that read _connected False on the current connection
\* has returned, the CONNECTED frame of that connection has been handled and
\* the connection is still up, with no call and no handler under way; nothing
\* but a disconnect or another call changes the registry from here on, so the
\* SUBSCRIBE frame for the topic has been sent on this connection and the
\* callback is among the subscriptions that MESSAGE frames are dispatched to.
C25_RacingSubscribeIsWireSubscribed ==
    (Quiescent /\ _connected /\ ws_state = "open") =>
        \A t \in Topics : \A i \in 1..Len(registered[t]) :
            (~registered[t][i].read /\ registered[t][i].conn = conn_no) =>
                /\ SubscribeCount(wire, t) >= 1
                /\ Occurrences(DictGet(_subscriptions, t, <<>>), registered[t][i].callback) >= 1

\* C34: the close handler never fails: whenever _on_close has just been
\* handled it ended without an exception and a new connection attempt is
\* started (at once, or by the sleep of that handler that is under way); so
\* self._reconnect_error is never read before it has been assigned.
C34_CloseHandlerNeverFails ==
    last.op = "close" => (err = None /\ ws_state \in {"connecting", "sleeping"})

\* C32: a subscribe or send call leaves _connected and the reconnect flag as
\* they are; _connected becomes True only in a step that handles a CONNECTED
\* frame and False only in a step that handles a close.
C32_OnlyTheSupervisorChangesConnectionState ==
    [][/\ last'.op \in {"subscribe", "send"} => UNCHANGED <<_connected, _reconnect>>
       /\ (~_connected /\ _connected') => LastIsFrame("CONNECTED")'
       /\ (_connected /\ ~_connected') => last'.op = "close"]_vars

\* C32 witness: a send call failed on a socket that was gone while _connected
\* was still True, after a subscribe call, and _connected is still True.
C32_Witness ==
    /\ last.op = "send"
    /\ err = "WebSocketConnectionClosedException"
    /\ ws_state = "closed"
    /\ _connected
    /\ SubscribeCalls = 1
    /\ ~_reconnect

\* C36: a step that handles a well-formed frame whose command is neither
\* CONNECTED nor MESSAGE invokes no callback, sends nothing, raises nothing
\* and leaves _connected, the reconnect flag and both subscription maps as
\* they are.
C36_OtherFramesAreInert ==
    [][(/\ last'.op = "message"
        /\ ~Decoded[last'.payload].heartbeat
        /\ Decoded[last'.payload].message.ok
        /\ Decoded[last'.payload].message.cmd \notin {"CONNECTED", "MESSAGE"}) =>
          /\ invoked' = <<>>
          /\ wire' = wire
          /\ err' = None
          /\ UNCHANGED <<_connected, _reconnect, _backlog_subscriptions, _subscriptions>>]_vars

\* C36 witness: an ERROR frame was handled while Connected with a callback
\* subscribed and after a first disconnect; nothing was invoked.
C36_Witness ==
    /\ LastIsFrame("ERROR")
    /\ _connected
    /\ conn_no = 2
    /\ _subscriptions # <<>>
    /\ invoked = <<>>

\* C35: a step that handles a MESSAGE frame while _connected is False, before
\* the CONNECTED frame of a connection or after a close, invokes no callback,
\* whatever waits in the backlog.
C35_NoDispatchOutsideConnected ==
    [][(LastIsFrame("MESSAGE")' /\ handler = "idle" /\ handler' = "idle"
        /\ caller' = caller /\ ~_connected) => invoked' = <<>>]_vars

\* C33: a subscribe call made during the sleep of _on_close returns while the
\* sleep lasts, and its callback is then in the backlog of its topic; once the
\* CONNECTED frame of the connection that follows the sleep has been handled,
\* the SUBSCRIBE frame for the topic has been sent on that connection and the
\* callback is among the subscriptions of the topic.
C33_BackoffNeverBlocksCallers ==
    Quiescent =>
        \A t \in Topics : \A i \in 1..Len(registered[t]) :
            registered[t][i].backoff =>
                /\ (ws_state = "sleeping" /\ registered[t][i].conn = conn_no) =>
                       Occurrences(DictGet(_backlog_subscriptions, t, <<>>),
                                   registered[t][i].callback) >= 1
                /\ (_connected /\ ws_state = "open" /\ registered[t][i].conn + 1 = conn_no) =>
                       /\ SubscribeCount(wire, t) >= 1
                       /\ Occurrences(DictGet(_subscriptions, t, <<>>),
                                      registered[t][i].callback) >= 1

\* The step is a call of _init_websocket made from outside.
CalledFromOutside ==
    /\ Len(openers') = Len(openers) + 1
    /\ openers'[Len(openers')] = "caller"

\* C31: a call of _init_websocket made while a WebSocketApp has a connection
\* or a connection attempt is a no-op: no WebSocketApp and no thread is
\* added, and self._ws stays the one it was.
C31_OpeningIsIdempotent ==
    [][(CalledFromOutside /\ Connections(apps) # {}) =>
          (apps' = apps /\ _ws' = _ws)]_vars

====
